---- MODULE Spec2Model ----
(***************************************************************************)
(* Tic Tac Toe (src/tic_tac_toe_frontend/src/App.js).                      *)
(*                                                                         *)
(* The App component keeps four pieces of React state (board, xIsNext,     *)
(* mode, isGameOver), derives winner / isDraw / winningLine while          *)
(* rendering, and runs two passive effects after a commit: one stores the  *)
(* game-over flag, one plays the computer's move.  Event handlers and      *)
(* effects read the values of the render they were created in; their       *)
(* setState calls are batched into the next render.                        *)
(*                                                                         *)
(* A JavaScript array is modelled as a function whose domain is the set of *)
(* its own keys: reading a key outside the domain yields undefined.        *)
(***************************************************************************)
EXTENDS Integers, Sequences, FiniteSets

VARIABLES
    board,                  \* useState: the squares of the committed render
    xIsNext,                \* useState
    mode,                   \* useState: "pvp" or "pvc"
    isGameOver,             \* useState
    winner,                 \* useMemo value of the committed render
    isDraw,                 \* useMemo value of the committed render
    winningLine,            \* Board component: getWinningLine(board)
    pendingGameOverEffect,  \* the game-over effect has to run for this commit
    pendingAIEffect,        \* the AI effect has to run for this commit
    lastInput               \* history: the last event handled and its argument

vars == <<board, xIsNext, mode, isGameOver, winner, isDraw, winningLine,
          pendingGameOverEffect, pendingAIEffect, lastInput>>

----------------------------------------------------------------------------
(* JavaScript values *)

Null == "null"
Undefined == "undefined"
NoLine == <<>>          \* getWinningLine's null

Truthy(v) == v # Null /\ v # Undefined

\* squares[i]
Get(squares, i) == IF i \in DOMAIN squares THEN squares[i] ELSE Undefined

\* squares.length: one more than the largest array index
Length(squares) ==
    LET idx == {k \in DOMAIN squares : k >= 0}
    IN  IF idx = {} THEN 0 ELSE 1 + CHOOSE k \in idx : \A j \in idx : j <= k

\* squares.slice(): the array elements only, other properties are dropped
Slice(squares) ==
    [k \in {j \in DOMAIN squares : j >= 0 /\ j < Length(squares)} |-> squares[k]]

\* copy[i] = v
Put(squares, i, v) ==
    [k \in (DOMAIN squares) \cup {i} |-> IF k = i THEN v ELSE squares[k]]

\* squares.every(Boolean)
EveryBoolean(squares) ==
    \A k \in DOMAIN squares : (k >= 0 /\ k < Length(squares)) => Truthy(squares[k])

\* Array(9).fill(null)
BoardSize == 9
EmptyBoard == [k \in 0..(BoardSize - 1) |-> Null]

----------------------------------------------------------------------------
(* Pure functions *)

WIN_LINES ==
    << <<0, 1, 2>>, <<3, 4, 5>>, <<6, 7, 8>>,
       <<0, 3, 6>>, <<1, 4, 7>>, <<2, 5, 8>>,
       <<0, 4, 8>>, <<2, 4, 6>> >>

\* the test of the loop body of calculateWinner and getWinningLine
LineMatches_noThirdCell(squares, line) ==
    /\ Truthy(Get(squares, line[1]))
    /\ Get(squares, line[1]) = Get(squares, line[2])

LineMatches(squares, line) ==
    /\ Truthy(Get(squares, line[1]))
    /\ Get(squares, line[1]) = Get(squares, line[2])
    /\ Get(squares, line[1]) = Get(squares, line[3])

RECURSIVE calculateWinnerFrom(_, _)
calculateWinnerFrom(squares, i) ==
    IF i > Len(WIN_LINES) THEN Null
    ELSE IF LineMatches(squares, WIN_LINES[i]) THEN Get(squares, WIN_LINES[i][1])
    ELSE calculateWinnerFrom(squares, i + 1)

calculateWinner(squares) == calculateWinnerFrom(squares, 1)

RECURSIVE getWinningLineFrom(_, _)
getWinningLineFrom(squares, i) ==
    IF i > Len(WIN_LINES) THEN NoLine
    ELSE IF LineMatches(squares, WIN_LINES[i]) THEN WIN_LINES[i]
    ELSE getWinningLineFrom(squares, i + 1)

getWinningLine(squares) == getWinningLineFrom(squares, 1)

\* the first i in from..8 with squares[i] falsy whose filling by mark wins, or -1
RECURSIVE FirstWinningCell(_, _, _)
FirstWinningCell_missesLastCell(squares, mark, i) ==
    IF i >= 8 THEN -1
    ELSE IF ~Truthy(Get(squares, i))
            /\ calculateWinner(Put(Slice(squares), i, mark)) = mark THEN i
    ELSE FirstWinningCell(squares, mark, i + 1)

FirstWinningCell(squares, mark, i) ==
    IF i >= 9 THEN -1
    ELSE IF ~Truthy(Get(squares, i))
            /\ calculateWinner(Put(Slice(squares), i, mark)) = mark THEN i
    ELSE FirstWinningCell(squares, mark, i + 1)

\* [..].filter((i) => !squares[i])[0], or -1 when the filtered list is empty
RECURSIVE FirstFree(_, _, _)
FirstFree_unchecked(squares, cells, k) ==
    IF k > Len(cells) THEN -1 ELSE cells[k]

FirstFree(squares, cells, k) ==
    IF k > Len(cells) THEN -1
    ELSE IF ~Truthy(Get(squares, cells[k])) THEN cells[k]
    ELSE FirstFree(squares, cells, k + 1)

Corners_reversed == <<8, 6, 2, 0>>
Corners == <<0, 2, 6, 8>>
Sides == <<1, 3, 5, 7>>

chooseBestMove_centerUnchecked(squares, ai, human) ==
    LET win == FirstWinningCell(squares, ai, 0)
        block == FirstWinningCell(squares, human, 0)
    IN  IF win # -1 THEN win
        ELSE IF block # -1 THEN block
        ELSE 4

chooseBestMove_blockFirst(squares, ai, human) ==
    LET win == FirstWinningCell(squares, ai, 0)
        block == FirstWinningCell(squares, human, 0)
        corner == FirstFree(squares, Corners, 1)
        side == FirstFree(squares, Sides, 1)
    IN  IF block # -1 THEN block
        ELSE IF win # -1 THEN win
        ELSE IF ~Truthy(Get(squares, 4)) THEN 4
        ELSE IF corner # -1 THEN corner
        ELSE IF side # -1 THEN side
        ELSE -1

chooseBestMove_noBlock(squares, ai, human) ==
    LET win == FirstWinningCell(squares, ai, 0)
        corner == FirstFree(squares, Corners, 1)
        side == FirstFree(squares, Sides, 1)
    IN  IF win # -1 THEN win
        ELSE IF ~Truthy(Get(squares, 4)) THEN 4
        ELSE IF corner # -1 THEN corner
        ELSE IF side # -1 THEN side
        ELSE -1

chooseBestMove(squares, ai, human) ==
    LET win == FirstWinningCell(squares, ai, 0)
        block == FirstWinningCell(squares, human, 0)
        corner == FirstFree(squares, Corners, 1)
        side == FirstFree(squares, Sides, 1)
    IN  IF win # -1 THEN win
        ELSE IF block # -1 THEN block
        ELSE IF ~Truthy(Get(squares, 4)) THEN 4
        ELSE IF corner # -1 THEN corner
        ELSE IF side # -1 THEN side
        ELSE -1

\* useMemo(() => !winner && board.every(Boolean))
computeIsDraw_ignoresWinner(squares, w) == EveryBoolean(squares)
computeIsDraw(squares, w) == ~Truthy(w) /\ EveryBoolean(squares)

----------------------------------------------------------------------------
(* Rendering *)

Settled == ~pendingGameOverEffect /\ ~pendingAIEffect

\* A render committed with the given state.  setBoard is always called
\* with a fresh array, so the board dependency changes whenever it is called.
Commit(b, x, m, g, boardSet) ==
    LET w == calculateWinner(b)
        d == computeIsDraw(b, w)
    IN  /\ board' = b
        /\ xIsNext' = x
        /\ mode' = m
        /\ isGameOver' = g
        /\ winner' = w
        /\ isDraw' = d
        /\ winningLine' = getWinningLine(b)
        /\ pendingGameOverEffect' = (w # winner \/ d # isDraw)
        /\ pendingAIEffect' = (boardSet \/ x # xIsNext \/ m # mode \/ g # isGameOver)

Init ==
    /\ board = EmptyBoard
    /\ xIsNext = TRUE
    /\ mode = "pvp"
    /\ isGameOver = FALSE
    /\ winner = calculateWinner(EmptyBoard)
    /\ isDraw = computeIsDraw(EmptyBoard, calculateWinner(EmptyBoard))
    /\ winningLine = getWinningLine(EmptyBoard)
    /\ pendingGameOverEffect = TRUE
    /\ pendingAIEffect = TRUE
    /\ lastInput = [op |-> "mount"]

----------------------------------------------------------------------------
(* Event handlers *)

\* if (isGameOver || board[index]) return;
clickIgnored_noGameOverCheck(index) == Truthy(Get(board, index))
clickIgnored_noOccupiedCheck(index) == isGameOver
clickIgnored(index) == isGameOver \/ Truthy(Get(board, index))

\* xIsNext ? 'X' : 'O'
clickMark_alwaysX == "X"
clickMark == IF xIsNext THEN "X" ELSE "O"

handleCellClick_flipsOnlyInProgress(index) ==
    /\ Settled
    /\ lastInput' = [op |-> "click", index |-> index]
    /\ IF clickIgnored(index)
       THEN UNCHANGED <<board, xIsNext, mode, isGameOver, winner, isDraw,
                        winningLine, pendingGameOverEffect, pendingAIEffect>>
       ELSE LET b == Put(Slice(board), index, clickMark)
                over == Truthy(calculateWinner(b)) \/ EveryBoolean(b)
            IN  Commit(b, IF over THEN xIsNext ELSE ~xIsNext, mode, isGameOver, TRUE)

handleCellClick(index) ==
    /\ Settled
    /\ lastInput' = [op |-> "click", index |-> index]
    /\ IF clickIgnored(index)
       THEN UNCHANGED <<board, xIsNext, mode, isGameOver, winner, isDraw,
                        winningLine, pendingGameOverEffect, pendingAIEffect>>
       ELSE Commit(Put(Slice(board), index, clickMark),
                   ~xIsNext, mode, isGameOver, TRUE)

restartGame_keepsTurn ==
    /\ Settled
    /\ lastInput' = [op |-> "restart"]
    /\ Commit(EmptyBoard, xIsNext, mode, FALSE, TRUE)

restartGame ==
    /\ Settled
    /\ lastInput' = [op |-> "restart"]
    /\ Commit(EmptyBoard, TRUE, mode, FALSE, TRUE)

switchMode_noReset(newMode) ==
    /\ Settled
    /\ lastInput' = [op |-> "switchMode", newMode |-> newMode]
    /\ Commit(board, xIsNext, newMode, isGameOver, FALSE)

switchMode(newMode) ==
    /\ Settled
    /\ lastInput' = [op |-> "switchMode", newMode |-> newMode]
    /\ Commit(EmptyBoard, TRUE, newMode, FALSE, TRUE)

----------------------------------------------------------------------------
(* Effects *)

\* the value the game-over effect passes to setIsGameOver
gameOverEffectValue_winnerOnly == Truthy(winner)
gameOverEffectValue == Truthy(winner) \/ isDraw

\* the AI effect gets as far as calling chooseBestMove
aiEffectActs_ignoresMode == ~isGameOver /\ ~xIsNext
aiEffectActs == mode = "pvc" /\ ~isGameOver /\ ~xIsNext

aiEffectMove == chooseBestMove(board, "O", "X")

\* Both effects of one commit run in declaration order on the values of that
\* commit; their updates are applied together in the next render.
FlushEffects ==
    /\ ~Settled
    /\ UNCHANGED lastInput
    /\ LET g == IF pendingGameOverEffect THEN gameOverEffectValue ELSE isGameOver
           move == IF pendingAIEffect /\ aiEffectActs THEN aiEffectMove ELSE -1
       IN  IF move # -1
           THEN Commit(Put(Slice(board), move, "O"), TRUE, mode, g, TRUE)
           ELSE IF g # isGameOver
           THEN Commit(board, xIsNext, mode, g, FALSE)
           ELSE /\ pendingGameOverEffect' = FALSE
                /\ pendingAIEffect' = FALSE
                /\ UNCHANGED <<board, xIsNext, mode, isGameOver, winner, isDraw,
                               winningLine>>

----------------------------------------------------------------------------
(* The application: the Board component offers one button per square *)

Modes == {"pvp", "pvc"}
CellIndices == 0..(BoardSize - 1)

CellClick == \E index \in CellIndices : handleCellClick(index)
Restart == restartGame
SwitchMode == \E newMode \in Modes : switchMode(newMode)

Next == CellClick \/ Restart \/ SwitchMode \/ FlushEffects

Spec == Init /\ [][Next]_vars

----------------------------------------------------------------------------
(* handleCellClick called directly, with indices the Board never passes *)

OutOfRange == {-1, BoardSize}

\* the direct calls are explored on boards with few marks
MaxRawMarks == 2
MarkCount(squares) == Cardinality({k \in DOMAIN squares : Truthy(squares[k])})

RawCellClick ==
    \E index \in CellIndices \cup OutOfRange :
        MarkCount(board) < MaxRawMarks /\ handleCellClick(index)

NextRaw == RawCellClick \/ Restart \/ SwitchMode \/ FlushEffects

SpecRaw == Init /\ [][NextRaw]_vars

----------------------------------------------------------------------------
(* The derived values of a render, for any nine squares *)

Cells == {Null, "X", "O"}
AllBoards == [CellIndices -> Cells]

\* not rendered yet: no derived value, no effect scheduled
InitEval ==
    /\ board \in AllBoards
    /\ xIsNext = TRUE
    /\ mode = "pvp"
    /\ isGameOver = FALSE
    /\ winner = Null
    /\ isDraw = FALSE
    /\ winningLine = NoLine
    /\ pendingGameOverEffect = FALSE
    /\ pendingAIEffect = FALSE
    /\ lastInput = [op |-> "mount"]

Rendered == pendingAIEffect

\* the first render of App and Board on these squares
Render ==
    /\ ~Rendered
    /\ winner' = calculateWinner(board)
    /\ isDraw' = computeIsDraw(board, calculateWinner(board))
    /\ winningLine' = getWinningLine(board)
    /\ pendingGameOverEffect' = TRUE
    /\ pendingAIEffect' = TRUE
    /\ UNCHANGED <<board, xIsNext, mode, isGameOver, lastInput>>

NextEval == Render

SpecEval == InitEval /\ [][NextEval]_vars

----------------------------------------------------------------------------
(* Vocabulary of the properties *)

\* Handlers run on settled states only; the effects run on the others.
ClickStep == Settled /\ lastInput'.op = "click"
RestartStep == Settled /\ lastInput'.op = "restart"
SwitchModeStep == Settled /\ lastInput'.op = "switchMode"
EffectStep == ~Settled

\* the status derived from the squares, independently of the program's scan
HasLine(squares, mark) ==
    \E k \in 1..Len(WIN_LINES) :
        \A j \in 1..3 : Get(squares, WIN_LINES[k][j]) = mark
Marks == {"X", "O"}
StatusWon(squares) == \E mark \in Marks : HasLine(squares, mark)
StatusDraw(squares) ==
    ~StatusWon(squares) /\ \A k \in CellIndices : Get(squares, k) \in Marks
StatusInProgress(squares) == ~StatusWon(squares) /\ ~StatusDraw(squares)

IsNineCells(squares) == DOMAIN squares = CellIndices
ChangedCells == {k \in (DOMAIN board) \cup (DOMAIN board') :
                    Get(board, k) # Get(board', k)}
SessionUnchanged == UNCHANGED <<board, xIsNext, isGameOver, winner, isDraw, winningLine>>
CountOf(squares, mark) == Cardinality({k \in DOMAIN squares : squares[k] = mark})

----------------------------------------------------------------------------
(* C1: a click on any cell 0..8 while the status is Won or Draw leaves the
   board, the turn and the status unchanged. *)
C1_ClickAfterGameOverIgnored ==
    [][(ClickStep /\ ~StatusInProgress(board)) => SessionUnchanged]_vars

\* an empty cell was clicked on a won board and nothing happened
C1_Witness ==
    /\ Settled
    /\ lastInput.op = "click"
    /\ StatusWon(board)
    /\ Get(board, lastInput.index) = Null

(* C2: the opponent effect places a mark only in pvc mode, when the status
   computed from the current board is InProgress and it is O's turn. *)
C2_OpponentMovesOnlyInProgress ==
    [][(EffectStep /\ board' # board) =>
          (mode = "pvc" /\ ~xIsNext /\ StatusInProgress(board))]_vars

(* C3: a click on a cell that already holds a mark leaves the board, the
   turn and the status unchanged. *)
C3_ClickOnOccupiedIgnored ==
    [][(ClickStep /\ Get(board, lastInput'.index) \in Marks) => SessionUnchanged]_vars

\* an occupied cell was clicked while the game was in progress
C3_Witness ==
    /\ Settled
    /\ lastInput.op = "click"
    /\ StatusInProgress(board)
    /\ Get(board, lastInput.index) \in Marks

(* C5 as stated: an accepted move sets exactly the clicked cell to the mark
   of the turn; the turn flips if the status is still InProgress and does
   not flip if the move produced Won or Draw. *)
C5_TurnKeptOnTerminalMove ==
    [][(ClickStep /\ StatusInProgress(board) /\ Get(board, lastInput'.index) = Null) =>
          /\ board' = Put(board, lastInput'.index, IF xIsNext THEN "X" ELSE "O")
          /\ xIsNext' = IF StatusInProgress(board') THEN ~xIsNext ELSE xIsNext]_vars

(* C5 amended: an accepted move (a click on an Empty cell, or the opponent's
   move, while the status is InProgress) sets exactly one cell, which was
   Empty, to the mark of the turn, leaves the other cells unchanged, and
   always flips the turn, also when the move produced Won or Draw. *)
C5_AcceptedMoveFlipsTurn ==
    [][/\ (ClickStep /\ StatusInProgress(board) /\ Get(board, lastInput'.index) = Null) =>
            /\ board' = Put(board, lastInput'.index, IF xIsNext THEN "X" ELSE "O")
            /\ xIsNext' = ~xIsNext
       /\ (EffectStep /\ StatusInProgress(board) /\ board' # board) =>
            /\ \E k \in CellIndices :
                  /\ Get(board, k) = Null
                  /\ board' = Put(board, k, IF xIsNext THEN "X" ELSE "O")
            /\ xIsNext' = ~xIsNext]_vars

\* a click completed a line for O and the turn went to X all the same
C5_Witness ==
    /\ lastInput.op = "click"
    /\ Get(board, lastInput.index) = "O"
    /\ HasLine(board, "O")
    /\ ~HasLine(board, "X")
    /\ xIsNext
    /\ ~Settled

(* C6: restart yields nine Empty cells, X to move and status InProgress,
   keeps the mode, and the effects that follow it place no mark. *)
C6_RestartResets ==
    [][/\ lastInput'.op = "restart" =>
            /\ board' = EmptyBoard
            /\ xIsNext'
            /\ StatusInProgress(board')
            /\ winner' = Null /\ ~isDraw' /\ ~isGameOver'
       /\ RestartStep => mode' = mode]_vars

\* settled after a restart of a game the computer had taken part in
C6_Witness ==
    /\ Settled
    /\ lastInput.op = "restart"
    /\ mode = "pvc"

(* C7: switchMode(m) sets the mode to m and resets like restart: nine Empty
   cells, X to move, status InProgress, and no mark is placed afterwards. *)
C7_SwitchModeResets ==
    [][lastInput'.op = "switchMode" =>
            /\ mode' = lastInput'.newMode
            /\ board' = EmptyBoard
            /\ xIsNext'
            /\ StatusInProgress(board')
            /\ winner' = Null /\ ~isDraw' /\ ~isGameOver']_vars

\* settled after a switch to the computer opponent
C7_Witness ==
    /\ Settled
    /\ lastInput.op = "switchMode"
    /\ lastInput.newMode = "pvc"
    /\ mode = "pvc"

(* C8: in every step other than restart and switchMode the board has nine
   cells, every marked cell keeps its mark and at most one cell changes. *)
C8_BoardOnlyGrows ==
    [][~(RestartStep \/ SwitchModeStep) =>
          /\ IsNineCells(board) /\ IsNineCells(board')
          /\ \A k \in CellIndices : board[k] \in Marks => board'[k] = board[k]
          /\ Cardinality(ChangedCells) <= 1]_vars

\* the computer has answered two clicks
C8_Witness ==
    /\ Settled
    /\ lastInput.op = "click"
    /\ mode = "pvc"
    /\ CountOf(board, "O") >= 2

(* C4 as stated: a click with an index outside 0..8 leaves the board, the
   turn and the status unchanged; the board keeps exactly nine cells. *)
C4_ClickOutOfRangeIgnored ==
    [][(ClickStep /\ lastInput'.index \notin CellIndices) =>
          (SessionUnchanged /\ IsNineCells(board'))]_vars

\* squares on which some line is held by one mark
FullLines(squares) ==
    {k \in 1..Len(WIN_LINES) :
        \E mark \in Marks : \A j \in 1..3 : squares[WIN_LINES[k][j]] = mark}
FirstFullLine(squares) ==
    CHOOSE k \in FullLines(squares) : \A j \in FullLines(squares) : k <= j

(* C9: the evaluator reports no winner iff no line is held by one mark;
   otherwise it reports the first such line in the order rows, columns,
   diagonals, and the mark that holds it. *)
C9_EvaluatorFirstLine ==
    Rendered =>
        IF FullLines(board) = {}
        THEN winner = Null /\ winningLine = NoLine
        ELSE /\ winningLine = WIN_LINES[FirstFullLine(board)]
             /\ winner \in Marks
             /\ \A j \in 1..3 : board[winningLine[j]] = winner
             /\ FirstFullLine(board) \in 1..3 => winningLine[2] = winningLine[1] + 1
             /\ FirstFullLine(board) \in 4..6 => winningLine[2] = winningLine[1] + 3
             /\ FirstFullLine(board) \in 7..8 => winningLine[2] = 4

\* two marks hold a line each; the earlier line, O's, is reported
C9_Witness ==
    /\ Rendered
    /\ HasLine(board, "X") /\ HasLine(board, "O")
    /\ winner = "O"
    /\ winningLine = <<0, 1, 2>>
    /\ board[6] = "X" /\ board[7] = "X" /\ board[8] = "X"

(* C10: isDraw is true iff no line is held by one mark and all nine cells
   are marked; exactly one of InProgress, Won, Draw holds, and a full board
   with a completed line is Won, not Draw. *)
C10_DrawIffFullWithoutLine ==
    Rendered =>
        /\ isDraw <=> (FullLines(board) = {} /\ \A k \in CellIndices : board[k] \in Marks)
        /\ ~(isDraw /\ winner # Null)
        /\ (winner # Null) <=> StatusWon(board)
        /\ isDraw <=> StatusDraw(board)

\* a full board with a completed line is reported as won
C10_Witness ==
    /\ Rendered
    /\ \A k \in CellIndices : board[k] \in Marks
    /\ winner = "X"
    /\ ~isDraw

----------------------------------------------------------------------------
(* chooseBestMove called on any nine squares, for either assignment of marks *)

Other(mark) == IF mark = "X" THEN "O" ELSE "X"

Selected == lastInput.op = "chooseBestMove"

\* one call; the squares passed are left as they are
SelectorCall ==
    /\ lastInput.op = "mount"
    /\ \E ai \in Marks :
          lastInput' = [op |-> "chooseBestMove", ai |-> ai, human |-> Other(ai),
                        move |-> chooseBestMove(board, ai, Other(ai))]
    /\ UNCHANGED <<board, xIsNext, mode, isGameOver, winner, isDraw, winningLine,
                   pendingGameOverEffect, pendingAIEffect>>

NextSelect == SelectorCall

SpecSelect == InitEval /\ [][NextSelect]_vars

\* the Empty cells that are the third cell of a line whose other two cells
\* hold the mark
WinCells(squares, mark) ==
    {i \in CellIndices :
        /\ squares[i] = Null
        /\ \E k \in 1..Len(WIN_LINES) :
              /\ \E j \in 1..3 : WIN_LINES[k][j] = i
              /\ \A j \in 1..3 : WIN_LINES[k][j] # i => squares[WIN_LINES[k][j]] = mark}

Lowest(S) == CHOOSE i \in S : \A j \in S : i <= j

EmptyCells(squares) == {i \in CellIndices : squares[i] = Null}

\* the first Empty cell of a list of cells, or -1
FirstEmptyIn(squares, cells) ==
    IF \A k \in 1..Len(cells) : squares[cells[k]] # Null THEN -1
    ELSE cells[Lowest({k \in 1..Len(cells) : squares[cells[k]] = Null})]

(* C11 as stated: on every board, if some Empty cell would complete
   three-in-a-row for the opponent mark, the Selector returns the lowest such
   cell. *)
C11_WinNowOnEveryBoard ==
    (Selected /\ WinCells(board, lastInput.ai) # {}) =>
        lastInput.move = Lowest(WinCells(board, lastInput.ai))

(* C11 amended: on every board on which no line is complete yet, if some
   Empty cell would complete three-in-a-row for the opponent mark, the
   Selector returns the lowest such cell, also when the human mark has such
   a cell too. *)
C11_WinNowPriority ==
    (Selected /\ ~StatusWon(board) /\ WinCells(board, lastInput.ai) # {}) =>
        lastInput.move = Lowest(WinCells(board, lastInput.ai))

\* both marks can win at once, the human's cell has the lower index, and
\* the opponent's cell is returned
C11_Witness ==
    /\ Selected
    /\ ~StatusWon(board)
    /\ WinCells(board, lastInput.ai) # {}
    /\ WinCells(board, lastInput.human) # {}
    /\ Lowest(WinCells(board, lastInput.human)) < Lowest(WinCells(board, lastInput.ai))
    /\ lastInput.move = Lowest(WinCells(board, lastInput.ai))

(* C12 as stated: on every board where no Empty cell completes a line for
   the opponent mark but some Empty cell completes one for the human mark,
   the Selector returns the lowest such cell. *)
C12_BlockOnEveryBoard ==
    (Selected /\ WinCells(board, lastInput.ai) = {}
              /\ WinCells(board, lastInput.human) # {}) =>
        lastInput.move = Lowest(WinCells(board, lastInput.human))

(* C12 amended: on every board on which no line is complete yet, where no
   Empty cell completes a line for the opponent mark but some Empty cell
   completes one for the human mark, the Selector returns the lowest such
   cell (that cell when there is only one). *)
C12_BlockPriority ==
    (Selected /\ ~StatusWon(board)
              /\ WinCells(board, lastInput.ai) = {}
              /\ WinCells(board, lastInput.human) # {}) =>
        lastInput.move = Lowest(WinCells(board, lastInput.human))

\* the human threatens twice, the centre is free, and the lower threat is
\* the cell returned
C12_Witness ==
    /\ Selected
    /\ ~StatusWon(board)
    /\ WinCells(board, lastInput.ai) = {}
    /\ Cardinality(WinCells(board, lastInput.human)) = 2
    /\ board[4] = Null
    /\ lastInput.move # 4
    /\ lastInput.move = Lowest(WinCells(board, lastInput.human))

(* C13: the Selector returns either the index of an Empty cell in 0..8 or
   -1, and -1 iff the board has no Empty cell. *)
C13_SelectorReturnsEmptyCell ==
    Selected =>
        /\ lastInput.move \in EmptyCells(board) \cup {-1}
        /\ lastInput.move = -1 <=> EmptyCells(board) = {}

\* one cell is left, a side, and it is the one returned
C13_Witness ==
    /\ Selected
    /\ Cardinality(EmptyCells(board)) = 1
    /\ ~StatusWon(board)
    /\ lastInput.move = 7
    /\ board[7] = Null

(* C14 as stated: on every board where neither mark has an Empty cell that
   completes a line, the Selector returns 4 if it is Empty, else the first
   Empty cell of 0,2,6,8, else the first Empty cell of 1,3,5,7. *)
C14_FallbackOnEveryBoard ==
    (Selected /\ WinCells(board, "X") = {} /\ WinCells(board, "O") = {}) =>
        lastInput.move =
            IF board[4] = Null THEN 4
            ELSE IF FirstEmptyIn(board, <<0, 2, 6, 8>>) # -1
                 THEN FirstEmptyIn(board, <<0, 2, 6, 8>>)
            ELSE FirstEmptyIn(board, <<1, 3, 5, 7>>)

(* C14 amended: the same on every board on which no line is complete yet. *)
C14_FallbackOrder ==
    (Selected /\ ~StatusWon(board)
              /\ WinCells(board, "X") = {} /\ WinCells(board, "O") = {}) =>
        lastInput.move =
            IF board[4] = Null THEN 4
            ELSE IF FirstEmptyIn(board, <<0, 2, 6, 8>>) # -1
                 THEN FirstEmptyIn(board, <<0, 2, 6, 8>>)
            ELSE FirstEmptyIn(board, <<1, 3, 5, 7>>)

\* centre and first corner taken, nobody threatens: corner 2
C14_Witness ==
    /\ Selected
    /\ ~StatusWon(board)
    /\ WinCells(board, "X") = {} /\ WinCells(board, "O") = {}
    /\ board[4] # Null /\ board[0] # Null
    /\ board[2] = Null /\ board[1] = Null
    /\ lastInput.move = 2

(* C15: once a winner is reported, the reported mark and line stay the same
   in every later step other than restart and switchMode. *)
C15_WinnerIsStable ==
    [][(winner # Null /\ ~(RestartStep \/ SwitchModeStep)) =>
          (winner' = winner /\ winningLine' = winningLine)]_vars

(* C16: in every reachable state at most one of the two marks holds a
   complete line. *)
C16_AtMostOneMarkHasLine ==
    ~(HasLine(board, "X") /\ HasLine(board, "O"))

(* C17: in pvc mode a state with the status InProgress and O to move is left
   only by the opponent placing one O in the Empty cell chooseBestMove
   returns for O against X, which gives the turn back to X; no further mark
   follows without an input, the human's clicks place X, and in pvp mode
   the effects never place a mark. *)
C17_OpponentAnswersOnce ==
    [][/\ (mode = "pvc" /\ ~xIsNext /\ StatusInProgress(board)) =>
            /\ EffectStep
            /\ chooseBestMove(board, "O", "X") \in EmptyCells(board)
            /\ board' = Put(board, chooseBestMove(board, "O", "X"), "O")
            /\ xIsNext'
       /\ (EffectStep /\ xIsNext) => board' = board
       /\ (ClickStep /\ mode = "pvc" /\ board' # board) =>
            board' = Put(board, lastInput'.index, "X")
       /\ (EffectStep /\ mode = "pvp") => board' = board]_vars

\* the computer has answered the human's click and the game goes on
C17_Witness ==
    /\ Settled
    /\ mode = "pvc"
    /\ lastInput.op = "click"
    /\ board[lastInput.index] = "X"
    /\ StatusInProgress(board)
    /\ xIsNext
    /\ CountOf(board, "O") = CountOf(board, "X")
    /\ CountOf(board, "O") >= 1

(* C18: the human can win against the computer, and only through a double
   threat: whenever X has a winning Empty cell on its turn in pvc mode, some
   O stands on a cell that was one of at least two winning cells of X. *)
C18_HumanWinsOnlyByDoubleThreat ==
    (Settled /\ mode = "pvc" /\ StatusInProgress(board) /\ WinCells(board, "X") # {}) =>
        \E k \in CellIndices :
            /\ board[k] = "O"
            /\ k \in WinCells(Put(board, k, Null), "X")
            /\ Cardinality(WinCells(Put(board, k, Null), "X")) >= 2

\* the human has completed a line against the computer
C18_Witness ==
    /\ mode = "pvc"
    /\ lastInput.op = "click"
    /\ winner = "X"
    /\ HasLine(board, "X")
    /\ ~HasLine(board, "O")
    /\ CountOf(board, "O") >= 2

\* an upper bound on the effect flushes still to come before the next input:
\* the opponent's move, then the correction of the stored flag, then a
\* flush that changes nothing
EffectsLeft ==
    IF Settled THEN 0
    ELSE IF mode = "pvc" /\ ~xIsNext /\ ~isGameOver /\ EmptyCells(board) # {} THEN 3
    ELSE IF isGameOver # (StatusWon(board) \/ StatusDraw(board)) THEN 2
    ELSE 1

(* C19: the effects that follow an input come to rest after at most three
   flushes (every flush lowers EffectsLeft); at rest the stored isGameOver
   flag says whether the board has a winner or is full; and the opponent
   effect places at most one mark per input. *)
C19_EffectsSettle ==
    [][/\ EffectStep => EffectsLeft' < EffectsLeft
       /\ Settled' => (isGameOver' <=> (StatusWon(board') \/ StatusDraw(board')))
       /\ EffectStep =>
            /\ board' # board => (~xIsNext /\ xIsNext')
            /\ xIsNext => (xIsNext' /\ board' = board)]_vars

\* at rest on a drawn board in pvc mode
C19_Witness ==
    /\ Settled
    /\ mode = "pvc"
    /\ isGameOver
    /\ StatusDraw(board)

(* C20: the number of X minus the number of O is 0 or 1, and it is X's turn
   exactly when the two numbers are equal. *)
C20_CountsMatchTurn ==
    /\ CountOf(board, "X") - CountOf(board, "O") \in {0, 1}
    /\ xIsNext <=> (CountOf(board, "X") = CountOf(board, "O"))

\* a finished game in which the numbers are equal
C20_Witness ==
    /\ Settled
    /\ isGameOver
    /\ HasLine(board, "X")
    /\ CountOf(board, "X") = CountOf(board, "O")
    /\ xIsNext

====
